---- MODULE Spec2Model ----
(***************************************************************************)
(* State-machine model of zero_db_ipo_agent.py: the polling cycle         *)
(* (run_cycle), the reconciler and GMP alert rules (detect_and_notify),   *)
(* the GMP aggregator (gather_gmp_for) and the message batcher (the tail  *)
(* of run_cycle).                                                         *)
(*                                                                         *)
(* Conventions.  A Python string is a sequence of one-character strings.  *)
(* An optional value (a dict key that may be missing, or None) is a       *)
(* sequence of length 0 or 1: None is <<>>, the value v is <<v>>.  The    *)
(* empty string and None are both <<>>; the code only ever tests such     *)
(* values for truthiness, where the two agree.  GMP values and prices are *)
(* integers (rupees); the float arithmetic of the code is exact on them.  *)
(***************************************************************************)
EXTENDS Integers, Sequences, FiniteSets, TLC

None == <<>>
Some(v) == <<v>>
IsSome(o) == o # <<>>
Val(o) == o[1]

Abs(x) == IF x < 0 THEN -x ELSE x

(***************************************************************************)
(* Bounds of the model.                                                    *)
(***************************************************************************)
MaxCycles == 3      \* polling cycles explored
MaxItems == 1       \* records in one fetched list (the request asks for limit=1)
MaxNotes == 3       \* event texts in one batch input (SpecBatch)

(***************************************************************************)
(* Input domains.                                                          *)
(***************************************************************************)
Thresholds == {0, 50}                      \* configured GMP_NOTIFY_THRESHOLD
GmpValues == {0, 40, 60}                   \* parsed gmp_value of a snapshot row
Symbols == {None, <<"X">>}                 \* it.get("symbol")
Companies == {None, <<"A", " ", "b">>}     \* it.get("company_name")
GmpCompanies == {<<"A", " ", "b">>}        \* company cell of a GMP table row
OPEN == <<"o", "p", "e", "n">>
CLOSED == <<"c", "l", "o", "s", "e", "d">>
RawStatuses == {None, OPEN, CLOSED}        \* it.get("status")
RawPricesLow == {None, Some(0), Some(100)}   \* it.get("price_low")
RawPricesHigh == {None, Some(120)}           \* it.get("price_high")
NoteLens == {100, 1800, 3714, 4000}        \* lengths of event texts (SpecBatch)

RawItems ==
  [symbol : Symbols, company_name : Companies, status : RawStatuses,
   price_low : RawPricesLow, price_high : RawPricesHigh]

\* The payload items of Spec: one company, listed with or without a symbol.
Items ==
  [symbol : Symbols, company_name : {<<"A", " ", "b">>}, status : {OPEN, CLOSED},
   price_low : {None}, price_high : {None}]

\* A snapshot of the Investorgain table: no usable row, or one row.
Snapshots ==
  {<<>>} \cup
  {<<[company |-> c, gmp_value |-> v]>> :
      c \in GmpCompanies, v \in {None} \cup {Some(g) : g \in GmpValues}}

VARIABLES
  GMP_NOTIFY_THRESHOLD,  \* module constant read from the environment
  ipos_state,            \* dict key -> stored IPO record (in memory)
  ipos_file,             \* contents of data/ipos.json
  now,                   \* clock: int(time.time()) / utcnow(), one tick per cycle
  pc,                    \* "sleep" between cycles, "detect" inside the record loop,
                         \* "raise" while an exception leaves run_cycle, "exit"
                         \* after a one-shot run, "crashed" when main_loop raised,
                         \* "start" before the startup writes of main_loop
  idx,                   \* number of records of current_ipos processed so far
  notifications,         \* detect_and_notify's list of event texts
  sent,                  \* messages handed to send_telegram in this cycle
  step,                  \* the last loop iteration: its index, key, prev, ipo,
                         \* the GMP readings gathered, agg, the events appended,
                         \* and whether save_json(IPOS_FILE) raised in it
  decided,               \* history: the events of this cycle whose mutation of
                         \* ipos_state has been made
  one_shot               \* main_loop's argument (--once / ONE_SHOT=1)

vars == <<GMP_NOTIFY_THRESHOLD, ipos_state, ipos_file, now, pc, idx,
          notifications, sent, step, decided, one_shot>>

(***************************************************************************)
(* String helpers: str.strip(), str.lower(), str.replace(" ", "-"), str(). *)
(***************************************************************************)
RECURSIVE LStrip(_)
LStrip(s) == IF s # <<>> /\ Head(s) = " " THEN LStrip(Tail(s)) ELSE s

RECURSIVE RStrip(_)
RStrip(s) ==
  IF s # <<>> /\ s[Len(s)] = " " THEN RStrip(SubSeq(s, 1, Len(s) - 1)) ELSE s

Strip(s) == RStrip(LStrip(s))

LowerChar(c) ==
  CASE c = "A" -> "a"
    [] c = "B" -> "b"
    [] c = "X" -> "x"
    [] OTHER -> c

Lower(s) == [i \in 1..Len(s) |-> LowerChar(s[i])]

ReplaceSpaces(s) == [i \in 1..Len(s) |-> IF s[i] = " " THEN "-" ELSE s[i]]

Slug(s) == ReplaceSpaces(Lower(Strip(s)))

DigitChar(d) == <<"0", "1", "2", "3", "4", "5", "6", "7", "8", "9">>[d + 1]

RECURSIVE DecStr(_)
DecStr(n) ==
  IF n < 0 THEN <<"-">> \o DecStr(-n)
  ELSE IF n < 10 THEN <<DigitChar(n)>>
  ELSE DecStr(n \div 10) \o <<DigitChar(n % 10)>>

\* Python `a or b` on strings / optional strings.
OrStr(a, b) == IF a # <<>> THEN a ELSE b

\* Truthiness of an optional number: None and 0 are falsy.
TruthyNum(o) == o # <<>> /\ o[1] # 0

\* Python `a or b` on optional numbers.
OrNum(a, b) == IF TruthyNum(a) THEN a ELSE b

(***************************************************************************)
(* fetch_ipoalerts_15_pages: normalisation of one payload item.            *)
(***************************************************************************)
FallbackKey(t) ==
  <<"i", "p", "o", "a", "l", "e", "r", "t", "s", "-">> \o DecStr(t) \o <<"-", "1">>

key_source(symbol, company) == Slug(OrStr(symbol, OrStr(company, <<>>)))

ItemKey(it, t) ==
  LET ks == key_source(it.symbol, it.company_name)
  IN  IF ks # <<>> THEN ks ELSE FallbackKey(t)

Normalize(it, t) ==
  [key |-> ItemKey(it, t),
   company_name |-> it.company_name,
   symbol |-> it.symbol,
   price_band_low |-> OrNum(it.price_low, None),
   price_band_high |-> OrNum(it.price_high, None),
   status |-> OrStr(it.status, OPEN)]

(***************************************************************************)
(* fetch_investorgain_gmp_requests: key of a table row; gather_gmp_for.    *)
(***************************************************************************)
GmpKey(company) == Slug(company)

\* snap.get(ipo_key): the row stored under the key, if any.
SnapGet(snap, ipo_key) ==
  IF snap # <<>> /\ GmpKey(snap[1].company) = ipo_key THEN Some(snap[1]) ELSE None

\* readings collected by gather_gmp_for (GMP_SOURCES is empty).
Readings(snap, ipo_key) ==
  LET rec == SnapGet(snap, ipo_key)
  IN  IF IsSome(rec) /\ IsSome(Val(rec).gmp_value)
      THEN <<Val(Val(rec).gmp_value)>>
      ELSE <<>>

\* Faulty variant: a zero aggregate instead of none when there is no reading.
gather_gmp_for_Degenerate(ipo_key, snap) ==
  LET readings == Readings(snap, ipo_key)
  IN  IF readings = <<>> THEN Some([median |-> 0, confidence |-> 0])
      ELSE Some([median |-> readings[1],
                 confidence |-> IF readings[1] # 0 THEN 100 ELSE 0])

\* Faulty variant: the guard `if median != 0` is missing.
gather_gmp_for_NoZeroGuard(ipo_key, snap) ==
  LET readings == Readings(snap, ipo_key)
  IN  IF readings = <<>> THEN None
      ELSE Some([median |-> readings[1], confidence |-> 100])

\* confidence in hundredths; a single reading has pstdev 0.
gather_gmp_for(ipo_key, snap) ==
  LET readings == Readings(snap, ipo_key)
  IN  IF readings = <<>> THEN None
      ELSE LET median == readings[1]
           IN  Some([median |-> median,
                     confidence |-> IF median # 0 THEN 100 ELSE 0])

(***************************************************************************)
(* detect_and_notify: the GMP alert rules.                                 *)
(***************************************************************************)
\* Faulty variant: a strict comparison with the threshold.
CrossingUp_Strict(median, pm, threshold) ==
  median > threshold /\ (~TruthyNum(pm) \/ Val(pm) < threshold)

\* median >= GMP_NOTIFY_THRESHOLD and (not pm or float(pm) < GMP_NOTIFY_THRESHOLD)
CrossingUp(median, pm, threshold) ==
  median >= threshold /\ (~TruthyNum(pm) \/ Val(pm) < threshold)

\* abs(float(pm) - median) / (abs(float(pm)) + 1e-9) > 0.5 on integers:
\* 2*|pm - median| > |pm| + 1e-9, i.e. 2*|pm - median| > |pm|.
RelChange(p, median) == 2 * Abs(p - median) > Abs(p)

\* pm and abs(float(pm) - median) / (abs(float(pm)) + 1e-9) > 0.5
LargeMove(median, pm) == TruthyNum(pm) /\ RelChange(Val(pm), median)

should_notify(median, pm, threshold) ==
  CrossingUp(median, pm, threshold) \/ LargeMove(median, pm)

\* midpoint = (low + high) / 2 if (low or high) else 0   (prices are even)
Midpoint(rec) ==
  LET low == IF TruthyNum(rec.price_band_low) THEN Val(rec.price_band_low) ELSE 0
      high == IF TruthyNum(rec.price_band_high) THEN Val(rec.price_band_high) ELSE 0
  IN  IF low # 0 \/ high # 0 THEN (low + high) \div 2 ELSE 0

(***************************************************************************)
(* Event texts.  A text is modelled by what it reports and by its length  *)
(* (len() of the f-string, counting the literal characters of the source  *)
(* file).  Fields of a record that no decision reads (dates, exchange,    *)
(* lot size, prospectus, raw) are absent, so the dates print as 'N/A'.    *)
(***************************************************************************)
NewIpoFixed == 61        \* literal characters of the New IPO text
StatusFixed == 32        \* literal characters of the Status change text
GmpFixed == 76           \* literal characters of the GMP Alert text
DashLen == 3             \* the placeholder printed for a missing symbol
NaLen == 3               \* 'N/A'
NoneStrLen == 4          \* str(None)
ConfLen == 4             \* f"{conf:.2f}" of a confidence in [0, 1]

\* len(str(x)) of an optional string field printed without `or`.
StrLen(s) == IF s = None THEN NoneStrLen ELSE Len(s)

\* len(x or 'N/A') of an optional number.
PriceLen(p) == IF TruthyNum(p) THEN Len(DecStr(Val(p))) ELSE NaLen

\* len(f"{median:.1f}") of an integral float.
FloatLen(m) == Len(DecStr(m)) + 2

NewIpoEvent(ipo) ==
  [type |-> "NewIPO", key |-> ipo.key, old |-> None, new |-> None,
   median |-> None, conf |-> None, midpoint |-> None,
   len |-> NewIpoFixed + StrLen(ipo.company_name)
           + (IF ipo.symbol # <<>> THEN Len(ipo.symbol) ELSE DashLen)
           + NaLen + NaLen
           + PriceLen(ipo.price_band_low) + PriceLen(ipo.price_band_high)]

\* Faulty variant: the old status read after the stored record was updated.
StatusEvent_OldAfterUpdate(ipo, old) ==
  [type |-> "StatusChanged", key |-> ipo.key, old |-> Some(ipo.status),
   new |-> Some(ipo.status),
   median |-> None, conf |-> None, midpoint |-> None,
   len |-> StatusFixed + StrLen(ipo.company_name)
           + (IF ipo.symbol # <<>> THEN Len(ipo.symbol) ELSE DashLen)
           + Len(ipo.status) + Len(ipo.status)]

StatusEvent(ipo, old) ==
  [type |-> "StatusChanged", key |-> ipo.key, old |-> Some(old),
   new |-> Some(ipo.status),
   median |-> None, conf |-> None, midpoint |-> None,
   len |-> StatusFixed + StrLen(ipo.company_name)
           + (IF ipo.symbol # <<>> THEN Len(ipo.symbol) ELSE DashLen)
           + Len(old) + Len(ipo.status)]

\* rec is ipos_state[key] after the update of last_notified_gmp.
GmpEvent(rec, agg) ==
  LET mid == Midpoint(rec)
      midHasBand == TruthyNum(rec.price_band_low) \/ TruthyNum(rec.price_band_high)
  IN  [type |-> "GmpAlert", key |-> rec.key, old |-> None, new |-> None,
       median |-> Some(agg.median), conf |-> Some(agg.confidence),
       midpoint |-> Some(mid),
       len |-> GmpFixed + StrLen(rec.company_name) + FloatLen(agg.median)
               + ConfLen
               + (IF midHasBand THEN FloatLen(mid) ELSE Len(DecStr(mid)))]

(***************************************************************************)
(* save_json: the document left in the file by a write that succeeds.      *)
(***************************************************************************)
save_json(file, obj) == obj

(***************************************************************************)
(* detect_and_notify: one iteration of the loop over current_ipos.         *)
(***************************************************************************)
\* Faulty variant: the dict is rebuilt with the one key.
Put_OnlyKey(f, k, v) == [x \in {k} |-> v]

\* d[k] = v
Put(f, k, v) == [x \in DOMAIN f \cup {k} |-> IF x = k THEN v ELSE f[x]]

\* ipos_state.get(key)
StateGet(state, key) == IF key \in DOMAIN state THEN Some(state[key]) ELSE None

\* Faulty variant: the copy is stored without seen_at.
NewRecord_NoSeenAt(ipo, ts) ==
  [key |-> ipo.key, company_name |-> ipo.company_name, symbol |-> ipo.symbol,
   price_band_low |-> ipo.price_band_low, price_band_high |-> ipo.price_band_high,
   status |-> ipo.status,
   seen_at |-> None, updated_at |-> None, last_notified_gmp |-> None]

\* ipo.copy() plus seen_at
NewRecord(ipo, ts) ==
  [key |-> ipo.key, company_name |-> ipo.company_name, symbol |-> ipo.symbol,
   price_band_low |-> ipo.price_band_low, price_band_high |-> ipo.price_band_high,
   status |-> ipo.status,
   seen_at |-> Some(ts), updated_at |-> None, last_notified_gmp |-> None]

\* Faulty variant: the stored record is replaced by the incoming one.
MergeRecord_Replace(rec, ipo, ts) ==
  [key |-> ipo.key, company_name |-> ipo.company_name, symbol |-> ipo.symbol,
   price_band_low |-> ipo.price_band_low, price_band_high |-> ipo.price_band_high,
   status |-> ipo.status,
   seen_at |-> None, updated_at |-> Some(ts), last_notified_gmp |-> None]

\* ipos_state[key].update(ipo) plus updated_at
MergeRecord(rec, ipo, ts) ==
  [rec EXCEPT !.key = ipo.key, !.company_name = ipo.company_name,
              !.symbol = ipo.symbol,
              !.price_band_low = ipo.price_band_low,
              !.price_band_high = ipo.price_band_high,
              !.status = ipo.status,
              !.updated_at = Some(ts)]

\* The new / status-changed / unchanged branch: the state and events after it.
Reconcile(state, ipo, ts) ==
  LET prev == StateGet(state, ipo.key)
  IN  IF prev = None
      THEN [state |-> Put(state, ipo.key, NewRecord(ipo, ts)),
            events |-> <<NewIpoEvent(ipo)>>]
      ELSE IF Val(prev).status # ipo.status
      THEN [state |-> Put(state, ipo.key, MergeRecord(Val(prev), ipo, ts)),
            events |-> <<StatusEvent(ipo, Val(prev).status)>>]
      ELSE [state |-> state, events |-> <<>>]

\* pm = prev.get("last_notified_gmp") if prev else None
PrevNotified(prev) == IF prev # None THEN Val(prev).last_notified_gmp ELSE None

\* The GMP branch, on the state left by Reconcile.
GmpDecide(state, key, prev, agg, threshold) ==
  IF IsSome(agg) /\ should_notify(Val(agg).median, PrevNotified(prev), threshold)
  THEN LET st == [state EXCEPT ![key].last_notified_gmp = Some(Val(agg).median)]
       IN  [state |-> st, events |-> <<GmpEvent(st[key], Val(agg))>>]
  ELSE [state |-> state, events |-> <<>>]

(***************************************************************************)
(* run_cycle: the batcher.  A message is the events it carries, in order, *)
(* and its length.                                                         *)
(***************************************************************************)
max_len == 3800
HeaderLen == 48          \* "*IPO Agent update <dash> YYYY-MM-DD HH:MM:SS UTC*\n\n"
FooterLen == 38          \* "\n\n_Disclaimer: not investment advice._"
SepLen == 5              \* "\n---\n"

RECURSIVE SumLen(_)
SumLen(ns) == IF ns = <<>> THEN 0 ELSE Head(ns).len + SumLen(Tail(ns))

\* len(header + "\n---\n".join(notifications) + footer)
MessageLen(ns) == HeaderLen + SumLen(ns) + SepLen * (Len(ns) - 1) + FooterLen

CloseBatch(cur) == [notes |-> cur.notes, len |-> cur.len + FooterLen]

\* Faulty variant: the event that overflows a batch is left out of the next one.
RECURSIVE SplitLoop_DropNote(_, _, _, _)
SplitLoop_DropNote(ns, i, parts, cur) ==
  IF i > Len(ns) THEN Append(parts, CloseBatch(cur))
  ELSE LET note == ns[i]
           chunk == IF cur.len # HeaderLen THEN SepLen + note.len ELSE note.len
       IN  IF cur.len + chunk + FooterLen > max_len
           THEN SplitLoop_DropNote(ns, i + 1, Append(parts, CloseBatch(cur)),
                                   [notes |-> <<>>, len |-> HeaderLen])
           ELSE SplitLoop_DropNote(ns, i + 1, parts,
                                   [notes |-> Append(cur.notes, note),
                                    len |-> cur.len + chunk])

RECURSIVE SplitLoop(_, _, _, _)
SplitLoop(ns, i, parts, cur) ==
  IF i > Len(ns) THEN Append(parts, CloseBatch(cur))
  ELSE LET note == ns[i]
           chunk == IF cur.len # HeaderLen THEN SepLen + note.len ELSE note.len
       IN  IF cur.len + chunk + FooterLen > max_len
           THEN SplitLoop(ns, i + 1, Append(parts, CloseBatch(cur)),
                          [notes |-> <<note>>, len |-> HeaderLen + note.len])
           ELSE SplitLoop(ns, i + 1, parts,
                          [notes |-> Append(cur.notes, note), len |-> cur.len + chunk])

\* The messages run_cycle hands to send_telegram.
Messages(ns) ==
  IF ns = <<>> THEN <<>>
  ELSE IF MessageLen(ns) <= max_len
  THEN <<[notes |-> ns, len |-> MessageLen(ns)]>>
  ELSE SplitLoop(ns, 1, <<>>, [notes |-> <<>>, len |-> HeaderLen])

(***************************************************************************)
(* The state machine.                                                      *)
(***************************************************************************)
Init ==
  /\ GMP_NOTIFY_THRESHOLD \in Thresholds
  /\ ipos_state = <<>>
  /\ ipos_file = <<>>
  /\ now = 0
  /\ pc = "sleep"
  /\ idx = 0
  /\ notifications = <<>>
  /\ sent = <<>>
  /\ step = None
  /\ decided = <<>>
  /\ one_shot = FALSE

\* run_cycle: fetch_ipoalerts_15_pages returned no record.
EmptyFetch ==
  /\ pc = "sleep"
  /\ now < MaxCycles
  /\ now' = now + 1
  /\ notifications' = <<>>
  /\ sent' = <<>>
  /\ idx' = 0
  /\ decided' = <<>>
  /\ pc' = IF one_shot THEN "exit" ELSE "sleep"
  /\ UNCHANGED <<GMP_NOTIFY_THRESHOLD, ipos_state, ipos_file, step, one_shot>>

\* run_cycle: the fetch returned records; detect_and_notify starts.
Fetch ==
  /\ pc = "sleep"
  /\ now < MaxCycles
  /\ pc' = "detect"
  /\ idx' = 0
  /\ notifications' = <<>>
  /\ sent' = <<>>
  /\ decided' = <<>>
  /\ UNCHANGED <<GMP_NOTIFY_THRESHOLD, ipos_state, ipos_file, now, step, one_shot>>

\* detect_and_notify: the loop body for the next record of current_ipos.  The
\* record is the normalisation of payload item `it`; `snap` is the snapshot that
\* gather_gmp_for fetches for it.  save_json(IPOS_FILE) follows every mutation.
\* Statuses are strings, so str(prev.status) != str(ipo.status) is inequality.
ProcessRecord(it, snap) ==
  /\ pc = "detect"
  /\ idx < MaxItems
  /\ LET ipo == Normalize(it, now)
         key == ipo.key
         prev == StateGet(ipos_state, key)
         rec == Reconcile(ipos_state, ipo, now)
         agg == gather_gmp_for(key, snap)
         gmp == GmpDecide(rec.state, key, prev, agg, GMP_NOTIFY_THRESHOLD)
     IN  /\ ipos_state' = gmp.state
         /\ ipos_file' = IF rec.events # <<>> \/ gmp.events # <<>>
                         THEN save_json(ipos_file, gmp.state) ELSE ipos_file
         /\ notifications' = notifications \o rec.events \o gmp.events
         /\ decided' = decided \o rec.events \o gmp.events
         /\ step' = Some([i |-> idx, key |-> key, prev |-> prev, ipo |-> ipo,
                          readings |-> Readings(snap, key), agg |-> agg,
                          events |-> rec.events \o gmp.events,
                          failed |-> FALSE])
  /\ idx' = idx + 1
  /\ UNCHANGED <<GMP_NOTIFY_THRESHOLD, now, pc, sent, one_shot>>

\* detect_and_notify returns (after saving funds_state, which nothing reads);
\* run_cycle builds the messages and hands them to send_telegram.
Notify ==
  /\ pc = "detect"
  /\ idx >= 1
  /\ sent' = Messages(notifications)
  /\ pc' = IF one_shot THEN "exit" ELSE "sleep"
  /\ now' = now + 1
  /\ UNCHANGED <<GMP_NOTIFY_THRESHOLD, ipos_state, ipos_file, idx, notifications,
                 step, decided, one_shot>>

Next ==
  \/ EmptyFetch
  \/ Fetch
  \/ \E it \in Items, snap \in Snapshots : ProcessRecord(it, snap)
  \/ Notify

Spec == Init /\ [][Next]_vars

(***************************************************************************)
(* Write failures.  save_json has no try/except: open() or json.dump()    *)
(* raising leaves detect_and_notify and run_cycle at once.  The local     *)
(* list `notifications` is kept as it was when the exception was raised.  *)
(***************************************************************************)
SaveSites == {"reconcile", "gmp"}

\* The loop body for the next record when save_json(IPOS_FILE) raises: at line
\* 431 or 442 (site "reconcile", after the record was stored or merged) or at
\* line 463 (site "gmp", after last_notified_gmp was set).  The text that
\* follows the failed write is never appended.  The file keeps its contents when
\* open() fails; it is truncated, and loads as {}, when the dump fails (damaged).
SaveFails(it, snap, site, damaged) ==
  /\ pc = "detect"
  /\ idx < MaxItems
  /\ LET ipo == Normalize(it, now)
         key == ipo.key
         prev == StateGet(ipos_state, key)
         rec == Reconcile(ipos_state, ipo, now)
         agg == gather_gmp_for(key, snap)
         gmp == GmpDecide(rec.state, key, prev, agg, GMP_NOTIFY_THRESHOLD)
         atGmp == site = "gmp"
         written == IF atGmp /\ rec.events # <<>>
                    THEN save_json(ipos_file, rec.state) ELSE ipos_file
         appended == IF atGmp THEN rec.events ELSE <<>>
     IN  /\ IF atGmp THEN gmp.events # <<>> ELSE rec.events # <<>>
         /\ ipos_state' = IF atGmp THEN gmp.state ELSE rec.state
         /\ ipos_file' = IF damaged THEN <<>> ELSE written
         /\ notifications' = notifications \o appended
         /\ decided' = decided \o (IF atGmp THEN rec.events \o gmp.events
                                   ELSE rec.events)
         /\ step' = Some([i |-> idx, key |-> key, prev |-> prev, ipo |-> ipo,
                          readings |-> IF atGmp THEN Readings(snap, key) ELSE <<>>,
                          agg |-> IF atGmp THEN agg ELSE None,
                          events |-> appended,
                          failed |-> TRUE])
  /\ pc' = "raise"
  /\ UNCHANGED <<GMP_NOTIFY_THRESHOLD, now, idx, sent, one_shot>>

\* detect_and_notify: save_json(FUND_FILE) raises after the loop (line 478).
FundSaveFails ==
  /\ pc = "detect"
  /\ idx >= 1
  /\ pc' = "raise"
  /\ UNCHANGED <<GMP_NOTIFY_THRESHOLD, ipos_state, ipos_file, now, idx,
                 notifications, sent, step, decided, one_shot>>

\* main_loop, continuous mode: `except Exception` prints the error and the loop
\* sleeps until the next cycle.
Catch ==
  /\ pc = "raise"
  /\ ~one_shot
  /\ pc' = "sleep"
  /\ now' = now + 1
  /\ UNCHANGED <<GMP_NOTIFY_THRESHOLD, ipos_state, ipos_file, idx, notifications,
                 sent, step, decided, one_shot>>

\* main_loop, one-shot mode: run_cycle() is called outside any try, so the
\* exception leaves main_loop and ends the process.
Escape ==
  /\ pc = "raise"
  /\ one_shot
  /\ pc' = "crashed"
  /\ now' = now + 1
  /\ UNCHANGED <<GMP_NOTIFY_THRESHOLD, ipos_state, ipos_file, idx, notifications,
                 sent, step, decided, one_shot>>

\* The files main_loop writes before the first cycle (lines 519-521).
StartupFiles == {"ipos", "fundamentals", "ipoalerts_raw"}

\* main_loop: the three startup writes succeed; the loop (or the one-shot run)
\* is entered.
Startup ==
  /\ pc = "start"
  /\ ipos_file' = save_json(ipos_file, ipos_state)
  /\ pc' = "sleep"
  /\ UNCHANGED <<GMP_NOTIFY_THRESHOLD, ipos_state, now, idx, notifications, sent,
                 step, decided, one_shot>>

\* main_loop: save_json raises in one of the startup writes, which are outside
\* any try in both modes: the exception leaves main_loop before any cycle.  A
\* failed dump of ipos.json leaves it truncated (it loads as {}).
StartupFails(file, damaged) ==
  /\ pc = "start"
  /\ ipos_file' = IF file = "ipos" /\ damaged THEN <<>> ELSE ipos_file
  /\ pc' = "crashed"
  /\ UNCHANGED <<GMP_NOTIFY_THRESHOLD, ipos_state, now, idx, notifications, sent,
                 step, decided, one_shot>>

\* The module is loaded (ipos_state = load_json(IPOS_FILE), no file yet) and
\* main_loop is about to make its startup writes.
InitFault ==
  /\ GMP_NOTIFY_THRESHOLD \in Thresholds
  /\ ipos_state = <<>>
  /\ ipos_file = <<>>
  /\ now = 0
  /\ pc = "start"
  /\ idx = 0
  /\ notifications = <<>>
  /\ sent = <<>>
  /\ step = None
  /\ decided = <<>>
  /\ one_shot \in BOOLEAN

NextFault ==
  \/ Startup
  \/ \E file \in StartupFiles, damaged \in BOOLEAN : StartupFails(file, damaged)
  \/ EmptyFetch
  \/ Fetch
  \/ \E it \in Items, snap \in Snapshots : ProcessRecord(it, snap)
  \/ \E it \in Items, snap \in Snapshots, site \in SaveSites, damaged \in BOOLEAN :
        SaveFails(it, snap, site, damaged)
  \/ FundSaveFails
  \/ Notify
  \/ Catch
  \/ Escape

SpecFault == InitFault /\ [][NextFault]_vars

(***************************************************************************)
(* The cycle on payload items with every combination of present and empty *)
(* identifying fields (symbol, company_name).                              *)
(***************************************************************************)
KeyItems ==
  [symbol : Symbols, company_name : Companies, status : {OPEN},
   price_low : {None}, price_high : {None}]

NextKeys ==
  \/ EmptyFetch
  \/ Fetch
  \/ \E it \in KeyItems, snap \in Snapshots : ProcessRecord(it, snap)
  \/ Notify

SpecKeys == Init /\ [][NextKeys]_vars

(***************************************************************************)
(* The cycle on payload items with a price band: each bound absent, zero  *)
(* or a number.                                                            *)
(***************************************************************************)
PriceItems ==
  [symbol : {None}, company_name : {<<"A", " ", "b">>}, status : {OPEN, CLOSED},
   price_low : RawPricesLow, price_high : RawPricesHigh]

NextPrice ==
  \/ EmptyFetch
  \/ Fetch
  \/ \E it \in PriceItems, snap \in Snapshots : ProcessRecord(it, snap)
  \/ Notify

SpecPrice == Init /\ [][NextPrice]_vars

(***************************************************************************)
(* The batcher on its own: run_cycle's tail applied to any list of event   *)
(* texts of the lengths in NoteLens.  A text is its position and length.   *)
(***************************************************************************)
RECURSIVE NoteLists(_)
NoteLists(n) ==
  IF n = 0 THEN {<<>>}
  ELSE LET shorter == NoteLists(n - 1)
       IN  shorter \cup
           {Append(ns, [text |-> Len(ns) + 1, len |-> l]) :
              ns \in {x \in shorter : Len(x) = n - 1}, l \in NoteLens}

InitBatch ==
  /\ GMP_NOTIFY_THRESHOLD \in Thresholds
  /\ ipos_state = <<>>
  /\ ipos_file = <<>>
  /\ now = 0
  /\ pc = "detect"
  /\ idx = 1
  /\ notifications \in NoteLists(MaxNotes)
  /\ sent = <<>>
  /\ step = None
  /\ decided = notifications
  /\ one_shot = FALSE

NextBatch == Notify

SpecBatch == InitBatch /\ [][NextBatch]_vars

(***************************************************************************)
(* Properties.                                                             *)
(***************************************************************************)
StepMedian(s) == Val(s.agg).median

\* The loop iteration s appended an event of the given type for its key.
Emitted(s, type) ==
  \E i \in DOMAIN s.events : s.events[i].type = type /\ s.events[i].key = s.key

CountOf(s, type) ==
  Cardinality({i \in DOMAIN s.events : s.events[i].type = type})

\* The GMP alert of iteration s carries the median and the state records it.
AlertedAt(s, state) ==
  /\ \E i \in DOMAIN s.events :
        /\ s.events[i].type = "GmpAlert"
        /\ s.events[i].key = s.key
        /\ s.events[i].median = Some(StepMedian(s))
  /\ state[s.key].last_notified_gmp = Some(StepMedian(s))

\* A ProcessRecord step that opens a call of detect_and_notify, taken after an
\* earlier call has processed a record.
NextCallStep == idx = 0 /\ idx' = 1 /\ step # None

\* C1: whenever a processed record (new, status-changed or unchanged) has an
\* aggregate with median >= threshold and its key's last_notified_gmp was
\* absent or below the threshold, the iteration emits a GmpAlert for the key
\* and the stored last_notified_gmp is that median.
C1_CrossingUpFires ==
  step # None =>
    LET s == Val(step)
        pm == PrevNotified(s.prev)
    IN  ( /\ IsSome(s.agg)
          /\ StepMedian(s) >= GMP_NOTIFY_THRESHOLD
          /\ (pm = None \/ Val(pm) < GMP_NOTIFY_THRESHOLD) )
        => AlertedAt(s, ipos_state)

\* C1 witness: an unchanged record whose stored last_notified_gmp is present
\* and below the threshold crosses up and is alerted.
C1_Witness ==
  /\ step # None
  /\ LET s == Val(step)
         pm == PrevNotified(s.prev)
     IN  /\ s.prev # None
         /\ Val(s.prev).status = s.ipo.status
         /\ IsSome(pm)
         /\ Val(pm) < GMP_NOTIFY_THRESHOLD
         /\ IsSome(s.agg)
         /\ StepMedian(s) >= GMP_NOTIFY_THRESHOLD
         /\ AlertedAt(s, ipos_state)

\* C2 (as claimed): over consecutive cycles for one key in which the median
\* stays >= threshold and is within 50% of the stored last_notified_gmp, no
\* GmpAlert is emitted after the first of those cycles.
C2_NoRepeatWhileAbove ==
  [][ ( /\ NextCallStep
        /\ LET a == Val(step)
               b == Val(step')
               pma == PrevNotified(a.prev)
               pmb == PrevNotified(b.prev)
           IN  /\ a.key = b.key
               /\ IsSome(a.agg)
               /\ StepMedian(a) >= GMP_NOTIFY_THRESHOLD
               /\ (pma = None \/ ~RelChange(Val(pma), StepMedian(a)))
               /\ IsSome(b.agg)
               /\ StepMedian(b) >= GMP_NOTIFY_THRESHOLD
               /\ IsSome(pmb)
               /\ ~RelChange(Val(pmb), StepMedian(b)) )
      => ~Emitted(Val(step'), "GmpAlert") ]_vars

\* C3 (as claimed): whenever last_notified_gmp is present, whatever its value,
\* and the median differs from it by more than 50% relative, a GmpAlert is
\* emitted and last_notified_gmp becomes the median.
C3_LargeMoveFires ==
  step # None =>
    LET s == Val(step)
        pm == PrevNotified(s.prev)
    IN  (IsSome(s.agg) /\ IsSome(pm) /\ RelChange(Val(pm), StepMedian(s)))
        => AlertedAt(s, ipos_state)

\* C4 (as claimed): once an alert has fired at a median >= threshold, a cycle
\* with the median below the threshold followed by a cycle with the median
\* >= threshold makes a GmpAlert fire on the second of them.
C4_RetriggerAfterDrop ==
  [][ ( /\ NextCallStep
        /\ LET a == Val(step)
               b == Val(step')
               pma == PrevNotified(a.prev)
           IN  /\ a.key = b.key
               /\ IsSome(pma)
               /\ Val(pma) >= GMP_NOTIFY_THRESHOLD
               /\ IsSome(a.agg)
               /\ StepMedian(a) < GMP_NOTIFY_THRESHOLD
               /\ IsSome(b.agg)
               /\ StepMedian(b) >= GMP_NOTIFY_THRESHOLD )
      => Emitted(Val(step'), "GmpAlert") ]_vars

\* The normalized fields of the stored record are those of the fetched one.
HoldsCopy(rec, ipo) ==
  /\ rec.key = ipo.key
  /\ rec.company_name = ipo.company_name
  /\ rec.symbol = ipo.symbol
  /\ rec.price_band_low = ipo.price_band_low
  /\ rec.price_band_high = ipo.price_band_high
  /\ rec.status = ipo.status

\* C5: a fetched record whose key is absent from the state yields exactly one
\* NewIPO event and no StatusChanged event, and the state then holds a copy of
\* the record under its key, stamped with seen_at.
C5_NewIpoDetected ==
  step # None =>
    LET s == Val(step)
    IN  s.prev = None =>
          /\ CountOf(s, "NewIPO") = 1
          /\ Emitted(s, "NewIPO")
          /\ CountOf(s, "StatusChanged") = 0
          /\ s.key \in DOMAIN ipos_state
          /\ HoldsCopy(ipos_state[s.key], s.ipo)
          /\ IsSome(ipos_state[s.key].seen_at)

\* C5 witness: a new record was stored while another key was already known.
C5_Witness ==
  /\ step # None
  /\ Val(step).prev = None
  /\ Emitted(Val(step), "NewIPO")
  /\ Cardinality(DOMAIN ipos_state) >= 2
  /\ IsSome(ipos_state[Val(step).key].seen_at)

\* C6: a fetched record whose key is stored with a different status yields
\* exactly one StatusChanged event carrying the old stored and the new incoming
\* status and no NewIPO event; the stored record takes the incoming fields and
\* gets updated_at.
C6_StatusChangeDetected ==
  step # None =>
    LET s == Val(step)
    IN  (s.prev # None /\ Val(s.prev).status # s.ipo.status) =>
          /\ CountOf(s, "StatusChanged") = 1
          /\ \E i \in DOMAIN s.events :
                /\ s.events[i].type = "StatusChanged"
                /\ s.events[i].key = s.key
                /\ s.events[i].old = Some(Val(s.prev).status)
                /\ s.events[i].new = Some(s.ipo.status)
          /\ CountOf(s, "NewIPO") = 0
          /\ HoldsCopy(ipos_state[s.key], s.ipo)
          /\ IsSome(ipos_state[s.key].updated_at)

\* C6 witness: a stored "open" record was fetched as "closed" and merged.
C6_Witness ==
  /\ step # None
  /\ LET s == Val(step)
     IN  /\ s.prev # None
         /\ Val(s.prev).status = OPEN
         /\ s.ipo.status = CLOSED
         /\ ipos_state[s.key].status = CLOSED
         /\ Emitted(s, "StatusChanged")

\* C7 (as claimed): the same record fed in two consecutive calls, with the same
\* GMP readings in both, produces no event on the second call.
C7_SecondCallSilent ==
  [][ ( /\ NextCallStep
        /\ Val(step).i = 0
        /\ Val(step').ipo = Val(step).ipo
        /\ Val(step').readings = Val(step).readings )
      => Val(step').events = <<>> ]_vars

\* C8 (as claimed): every message handed to send_telegram is at most max_len
\* characters long.
C8_WithinBudget ==
  \A i \in DOMAIN sent : sent[i].len <= max_len

RECURSIVE Flatten(_)
Flatten(ms) == IF ms = <<>> THEN <<>> ELSE Head(ms).notes \o Flatten(Tail(ms))

\* Length of a message that holds exactly the header, the notes joined by the
\* divider, and the footer.
WholeLen(ns) ==
  HeaderLen + SumLen(ns) + (IF ns = <<>> THEN 0 ELSE SepLen * (Len(ns) - 1))
  + FooterLen

\* C9: after run_cycle has sent, the messages hold the event texts whole, each
\* exactly once and in their original order; one message is sent when header,
\* events and footer fit max_len; none is sent when there is no event.
C9_Partition ==
  (pc = "sleep" /\ idx >= 1) =>
    /\ Flatten(sent) = notifications
    /\ \A i \in DOMAIN sent : sent[i].len = WholeLen(sent[i].notes)
    /\ (notifications # <<>> /\ WholeLen(notifications) <= max_len) => Len(sent) = 1
    /\ notifications = <<>> => sent = <<>>

\* C9 witness: three events were split over two messages.
C9_Witness ==
  /\ pc = "sleep"
  /\ Len(notifications) = 3
  /\ Len(sent) = 2
  /\ Flatten(sent) = notifications
  /\ \A i \in DOMAIN sent : sent[i].notes # <<>>

\* C10: when no source yields a reading for the key, gather_gmp_for returns no
\* aggregate, no GmpAlert is emitted for the key and its stored
\* last_notified_gmp is left as it was.
C10_EmptyAggregate ==
  step # None =>
    LET s == Val(step)
    IN  s.readings = <<>> =>
          /\ s.agg = None
          /\ ~Emitted(s, "GmpAlert")
          /\ ipos_state[s.key].last_notified_gmp = PrevNotified(s.prev)

\* C10 witness: a key alerted earlier is processed in a cycle without any
\* reading for it; its last_notified_gmp stays.
C10_Witness ==
  /\ step # None
  /\ LET s == Val(step)
     IN  /\ s.readings = <<>>
         /\ s.agg = None
         /\ IsSome(PrevNotified(s.prev))
         /\ ipos_state[s.key].last_notified_gmp = PrevNotified(s.prev)

\* C11: a failed write of the IPO state document does not abort the cycle: the
\* exception of a failed save_json(IPOS_FILE) never leaves run_cycle, so the
\* remaining records are reconciled and the cycle's events are produced.
C11_SaveFailureBestEffort == ~(pc = "raise" /\ step # None /\ Val(step).failed)

\* C12: an exception raised inside a polling cycle never escapes main_loop and
\* ends the process: it is caught at the top level in every mode.
C12_NeverFatal == [][pc = "raise" => pc' # "crashed"]_vars

\* C13: a key present in the IPO state is never removed, and the stored record
\* of a key changes only in a loop iteration that processes a fetched record of
\* that key: a cycle leaves the record of every key it did not fetch unchanged.
C13_StateOnlyGrows ==
  [][\A k \in DOMAIN ipos_state :
        /\ k \in DOMAIN ipos_state'
        /\ ipos_state'[k] # ipos_state[k] =>
              pc = "detect" /\ step' # None /\ Val(step').key = k]_vars

\* A status change was merged for one key while another key was in the state.
C13_Witness ==
  /\ step # None
  /\ Val(step).prev # None
  /\ CountOf(Val(step), "StatusChanged") = 1
  /\ \E k \in DOMAIN ipos_state : k # Val(step).key

\* C14: a record fetched in two cycles with the same identifying fields (symbol,
\* company name; each present or empty) is given the same key both times, and the
\* second cycle does not report it as a new IPO.
C14_KeyStable ==
  [][(/\ NextCallStep
      /\ Val(step').ipo.symbol = Val(step).ipo.symbol
      /\ Val(step').ipo.company_name = Val(step).ipo.company_name)
     => (/\ Val(step').key = Val(step).key
         /\ ~Emitted(Val(step'), "NewIPO"))]_vars

\* C15: for a non-empty list of readings gather_gmp_for returns an aggregate
\* whose confidence lies in [0, 1] (in hundredths: 0..100), is exactly 1.0 for
\* a single reading with a non-zero median and exactly 0 when the median is 0;
\* for an empty list it returns no aggregate.
C15_ConfidenceBounds ==
  step # None =>
    LET s == Val(step)
    IN  IF s.readings = <<>> THEN s.agg = None
        ELSE /\ IsSome(s.agg)
             /\ Val(s.agg).confidence \in 0..100
             /\ (Len(s.readings) = 1 /\ StepMedian(s) # 0)
                   => Val(s.agg).confidence = 100
             /\ StepMedian(s) = 0 => Val(s.agg).confidence = 0

\* An aggregate of the single reading 60 with confidence 1.0.
C15_Witness ==
  /\ step # None
  /\ Val(step).readings = <<60>>
  /\ Val(step).agg = Some([median |-> 60, confidence |-> 100])

\* C16: every mutation detect_and_notify makes to the IPO state (new record,
\* status-change merge, last_notified_gmp) is written to the file before the
\* next record is processed: at every record boundary within a cycle (before the
\* first record, between two records, after the last) the persisted document
\* equals the in-memory state.
C16_WriteThrough == pc = "detect" => ipos_file = ipos_state

\* The price band stored for the key of iteration s has a numeric non-zero bound.
HasBand(rec) == TruthyNum(rec.price_band_low) \/ TruthyNum(rec.price_band_high)

\* The midpoint reported by the GmpAlert of iteration s (None: unavailable).
AlertMidpoint(s) ==
  LET i == CHOOSE j \in DOMAIN s.events : s.events[j].type = "GmpAlert"
  IN  s.events[i].midpoint

\* C17: a GmpAlert reports (low + high) / 2 of the stored price band when at
\* least one bound is numeric and non-zero, and reports the midpoint as
\* unavailable (no number) otherwise, also when both bounds are absent or zero.
C17_Midpoint ==
  (step # None /\ Emitted(Val(step), "GmpAlert")) =>
    LET s == Val(step)
        rec == ipos_state[s.key]
        low == IF IsSome(rec.price_band_low) THEN Val(rec.price_band_low) ELSE 0
        high == IF IsSome(rec.price_band_high) THEN Val(rec.price_band_high) ELSE 0
    IN  IF HasBand(rec)
        THEN AlertMidpoint(s) = Some((low + high) \div 2)
        ELSE AlertMidpoint(s) = None

\* The events carried by the messages handed to send_telegram in this cycle.
SentEvents == {Flatten(sent)[i] : i \in DOMAIN Flatten(sent)}

\* C18: when a cycle has ended, every event for which it mutated the IPO state
\* (stored a new record, merged a status change, set last_notified_gmp) is in a
\* message handed to send_telegram, also when the cycle ended by a failure.
C18_NoDecidedEventLost ==
  pc \in {"sleep", "exit", "crashed"} =>
    \A i \in DOMAIN decided : decided[i] \in SentEvents

\* The reading the snapshot holds for a company name, if any.
Offered(snap, company) ==
  IF snap # <<>> /\ snap[1].company = company THEN snap[1].gmp_value ELSE None

\* C19: the key given to a fetched IPO record (with or without a symbol) equals
\* the key under which the GMP snapshot stores the row of the same company, so
\* whenever the snapshot holds a reading for the record's company name
\* gather_gmp_for finds it.
C19_KeysAgree ==
  [][\A it \in Items, snap \in Snapshots :
        (ProcessRecord(it, snap) /\ IsSome(Offered(snap, it.company_name)))
        => (/\ Val(step').key = GmpKey(it.company_name)
            /\ Val(step').readings = <<Val(Offered(snap, it.company_name))>>)]_vars

\* last_notified_gmp stored for key k in a state (None when k is not in it).
NotifiedOf(state, k) == IF k \in DOMAIN state THEN state[k].last_notified_gmp ELSE None

\* C20: the stored last_notified_gmp of a key changes only in a loop iteration
\* that emits a GmpAlert for that key, and every iteration that emits one leaves
\* it equal to the median the alert carries; so it always equals the median of
\* the most recent GmpAlert of the key.
C20_TracksAlerts ==
  [][\A k \in DOMAIN ipos_state' :
        LET iter == /\ pc = "detect"
                    /\ idx' = idx + 1 \/ pc' = "raise"
                    /\ step' # None /\ Val(step').key = k
            alert == iter /\ Emitted(Val(step'), "GmpAlert")
        IN  /\ NotifiedOf(ipos_state', k) # NotifiedOf(ipos_state, k) => alert
            /\ alert => AlertedAt(Val(step'), ipos_state')]_vars

\* The loop iteration s merged a status change into a stored record.
StatusMerged(s) == s.prev # None /\ Val(s.prev).status # s.ipo.status

\* C21: the merge of a status change keeps the stored record's seen_at and
\* last_notified_gmp (only the incoming fields and updated_at change): after
\* the iteration seen_at is the previous one, last_notified_gmp is the previous
\* one unless the iteration itself alerts, and the alert decision is the one
\* made on the pre-change last_notified_gmp.
C21_MergeKeepsBookkeeping ==
  step # None =>
    LET s == Val(step)
        rec == ipos_state[s.key]
        pm == Val(s.prev).last_notified_gmp
    IN  StatusMerged(s) =>
          /\ rec.seen_at = Val(s.prev).seen_at
          /\ ~Emitted(s, "GmpAlert") => rec.last_notified_gmp = pm
          /\ Emitted(s, "GmpAlert") <=>
               (IsSome(s.agg) /\ should_notify(StepMedian(s), pm, GMP_NOTIFY_THRESHOLD))

\* A record alerted at 60 has its status change merged in a cycle whose median
\* 40 does not alert: it still stores 60 and its first seen_at.
C21_Witness ==
  /\ step # None
  /\ StatusMerged(Val(step))
  /\ Val(step).readings = <<40>>
  /\ ~Emitted(Val(step), "GmpAlert")
  /\ ipos_state[Val(step).key].last_notified_gmp = Some(60)
  /\ ipos_state[Val(step).key].seen_at = Some(0)
  /\ IsSome(ipos_state[Val(step).key].updated_at)

\* C22: for every non-empty list of event texts, every message run_cycle sends
\* holds at least one event text between the header and the footer: no message
\* of header and footer alone is sent.
C22_NoEmptyBatch ==
  \A i \in DOMAIN sent : sent[i].notes # <<>> /\ sent[i].len > HeaderLen + FooterLen

====
